---- MODULE Spec2Model ----
(***************************************************************************)
(* Model of the batch job subsystem of firecrawl-sse-mcp:                  *)
(*   src/src/tools/batch.ts   the job registry, the p-queue of concurrency *)
(*                            1, the worker processBatchOperation and the  *)
(*                            two tool handlers;                           *)
(*   src/src/tools/utils.ts   withRetry and updateCreditUsage;             *)
(*   src/src/tools/client.ts  CONFIG;                                      *)
(*   src/src/tools/scraping.ts the second implementation of the two batch  *)
(*                            tools (ScrapingSpec);                        *)
(*   src/src/tools/scrape.ts  a direct tool call, next to the batch jobs   *)
(*                            (ToolsSpec), and with crawlStatus.ts a       *)
(*                            second direct tool (DirectSpec);             *)
(*   src/src/tools/index.ts   the registration of the CallTool handlers    *)
(*                            (HandlersSpec);                              *)
(*   src/unnamed/part_005, src/src/index.ts  the SSE sessions of the two   *)
(*                            entry points (SessionSpec, McpSessionSpec).  *)
(* RetrySpec and CreditSpec run withRetry and updateCreditUsage alone.     *)
(* A job id `batch_n` is modelled by the number n.  A string is modelled   *)
(* as the sequence of its fragments, so that String.includes is a search   *)
(* for a fragment.  An optional field is a set with at most one element.   *)
(***************************************************************************)
EXTENDS Integers, Sequences, FiniteSets, TLC

\* ------------------------------------------------------------------ bounds
MaxJobs == 3        \* accepted submissions explored
MaxUrls == 1        \* entries of the urls arrays submitted
MaxCalls == 1       \* direct firecrawl_scrape requests explored
MaxToolJobs == 2    \* accepted submissions explored next to direct requests
MaxRequests == 2    \* CallTool requests explored
MaxSessions == 3    \* GET /sse requests explored
MaxPosts == 1       \* POST /messages requests handed to one transport
MaxUpdates == 4     \* updateCreditUsage calls explored on their own

\* ------------------------------------------------------- program constants
DefaultMaxAttempts == 3
DefaultInitialDelay == 1000
DefaultMaxDelay == 10000
DefaultBackoffFactor == 2
TooManyRequests == 429
DefaultWarningThreshold == 1000
DefaultCriticalThreshold == 100
NotFound == 404
InternalServerError == 500

VARIABLES
  cfg,               \* CONFIG of client.ts, fixed at start-up
  operationCounter,  \* batch.ts:102
  batchOperations,   \* batch.ts:101, id -> QueuedBatchOperation
  queue,             \* p-queue: the tasks waiting to start, oldest first
  pending,           \* p-queue: the number of tasks started and not settled
  task,              \* per job: where its processBatchOperation promise is
  trace,             \* per job in the queue's hands: the backend calls made,
                     \* the answers heard and the sleeps taken so far
  creditTotal,       \* utils.ts creditUsage.total
  notices,           \* per updateCreditUsage call that got past the
                     \* self-hosted check, oldest first: the threshold
                     \* notification it logged, or "none"
  scrapes,           \* per firecrawl_scrape request: where its handler is,
                     \* the backend calls made for it, the answers heard
  requestHandlers,   \* the SDK Server's handler of each request method
  registered,        \* how far registerAllToolHandlers has run
  answered,          \* the results of the CallTool requests served so far
  transports,        \* part_005:39, index.ts:29: sessionId -> transport
  connections        \* per GET /sse request, by sessionId: where the
                     \* connection is, the messages its transport was handed

\* the state of the HTTP server and of the SDK Server
server == <<requestHandlers, registered, answered, transports, connections>>

vars == <<cfg, operationCounter, batchOperations, queue, pending, task,
          trace, creditTotal, notices, scrapes, server>>

\* ------------------------------------------------------------------ strings
MsgRateLimit == <<"Request failed: ", "rate limit", " exceeded">>
MsgTooMany == <<"Too Many Requests">>
MsgOther == <<"Internal server error">>
MsgTimeout == <<"socket hang up">>
MsgDefaultFailure == <<"Batch operation failed in Firecrawl API">>
MsgFailedToQueue == <<"Failed to queue: ">>

Includes(msg, fragment) == \E i \in 1..Len(msg) : msg[i] = fragment

\* ------------------------------------------------- what the backend answers
\* A thrown value: an Error instance (kind "Error") or a thrown string, with
\* the status of an Axios-like `response` when it carries one (0: none).
Thrown(kind, msg, status) ==
  [tag |-> "throw", kind |-> kind, message |-> msg, status |-> status,
   success |-> FALSE, creditsUsed |-> {}]

\* A returned BatchScrapeResponse | ErrorResponse.
Returned(success, msg, credits) ==
  [tag |-> "return", kind |-> "response", message |-> msg, status |-> 0,
   success |-> success, creditsUsed |-> credits]

ErrRateLimit == Thrown("Error", MsgRateLimit, 0)
ErrStatus429 == Thrown("Error", MsgTooMany, TooManyRequests)
ErrOther == Thrown("Error", MsgOther, 500)
ErrEmpty == Thrown("Error", <<>>, 0)     \* an Error made without a message
StrTimeout == Thrown("string", MsgTimeout, 0)
OkWithCredits == Returned(TRUE, <<>>, {60})
OkNoCredits == Returned(TRUE, <<>>, {})
FailRateLimit == Returned(FALSE, MsgRateLimit, {})
FailEmpty == Returned(FALSE, <<>>, {})
FailWithCredits == Returned(FALSE, MsgOther, {60})

BackendAnswers ==
  {ErrRateLimit, ErrStatus429, ErrOther, ErrEmpty, StrTimeout,
   OkWithCredits, OkNoCredits, FailRateLimit, FailEmpty, FailWithCredits}

\* ------------------------------------------------------------ configuration
\* client.ts:26-42.  An unset or zero environment value gives the default.
\* Number(..) of an environment value need not be whole: the attempt
\* ceiling, which the attempt counter is compared with, is kept as a
\* fraction num/den (den > 0).
Fraction(num, den) == [num |-> num, den |-> den]
Whole(n) == Fraction(n, 1)

\* n < x for a whole number n and a fraction x
lessThan(n, x) == n * x.den < x.num

DefaultRetry ==
  [maxAttempts |-> Whole(DefaultMaxAttempts), initialDelay |-> DefaultInitialDelay,
   maxDelay |-> DefaultMaxDelay, backoffFactor |-> DefaultBackoffFactor]

DefaultCredit ==
  [warningThreshold |-> DefaultWarningThreshold,
   criticalThreshold |-> DefaultCriticalThreshold]

Config(retry, credit, selfHosted) ==
  [retry |-> retry, credit |-> credit,
   apiUrl |-> IF selfHosted THEN {"FIRECRAWL_API_URL"} ELSE {}]

isSelfHosted == cfg.apiUrl # {}

\* the configurations the batch system is explored under
Configs ==
  {Config(DefaultRetry, DefaultCredit, FALSE),
   Config([maxAttempts |-> Whole(4), initialDelay |-> 1000, maxDelay |-> 5000,
           backoffFactor |-> 3], DefaultCredit, TRUE),
   Config([maxAttempts |-> Whole(1), initialDelay |-> 2000, maxDelay |-> 500,
           backoffFactor |-> 1],
          [warningThreshold |-> 100, criticalThreshold |-> 150], FALSE)}

\* ---------------------------------------------------------------- withRetry
RECURSIVE Pow(_, _)
Pow(b, e) == IF e = 0 THEN 1 ELSE b * Pow(b, e - 1)

Min(a, b) == IF a <= b THEN a ELSE b

\* faulty variant: only the message is looked at, not the response status
isRateLimitByMessage(error) ==
  /\ error.kind = "Error"
  /\ \/ Includes(error.message, "rate limit")
     \/ Includes(error.message, "429")

\* utils.ts:57-63
isRateLimit(error) ==
  \/ /\ error.kind = "Error"
     /\ \/ Includes(error.message, "rate limit")
        \/ Includes(error.message, "429")
  \/ /\ error.kind \in {"Error", "object"}
     /\ error.status = TooManyRequests

\* faulty variant: the last attempt is given up
shouldRetryOneLess(error, attempt) ==
  isRateLimit(error) /\ lessThan(attempt + 1, cfg.retry.maxAttempts)

\* faulty variant: one attempt too many
shouldRetryOneMore(error, attempt) ==
  isRateLimit(error) /\ lessThan(attempt - 1, cfg.retry.maxAttempts)

\* utils.ts:65
shouldRetry(error, attempt) ==
  isRateLimit(error) /\ lessThan(attempt, cfg.retry.maxAttempts)

\* faulty variant: the delay is not capped
delayMsUncapped(attempt) ==
  cfg.retry.initialDelay * Pow(cfg.retry.backoffFactor, attempt - 1)

\* utils.ts:66-70
delayMs(attempt) ==
  Min(cfg.retry.initialDelay * Pow(cfg.retry.backoffFactor, attempt - 1),
      cfg.retry.maxDelay)

\* ---------------------------------------------------- processBatchOperation
\* batch.ts:148: error instanceof Error ? error.message : String(error)
errorText(error) ==
  IF error.kind = "Error" THEN error.message
  ELSE IF error.kind = "string" THEN error.message
  ELSE <<"[object Object]">>

\* faulty variant: no default for an empty error text
unsuccessfulWithoutDefault(response) ==
  Thrown("Error", response.message, 0)

\* batch.ts:122-126: the Error thrown for an unsuccessful response
unsuccessful(response) ==
  Thrown("Error",
         IF response.message # <<>> THEN response.message
         ELSE MsgDefaultFailure,
         0)

\* utils.ts:115-124
hasCredits(response) == response.creditsUsed # {}

\* batch.ts:129
tracksCredits(response) == cfg.apiUrl = {} /\ hasCredits(response)

\* faulty variant: the credits are metered before the success check
meteredBeforeSuccessCheck(response) ==
  response.tag = "return" /\ tracksCredits(response)

\* batch.ts:122-129: the worker looks at the credits of a response only
\* after it has thrown for an unsuccessful one
metered(response) ==
  response.tag = "return" /\ response.success /\ tracksCredits(response)

\* faulty variant: credits are counted for a self-hosted backend too
updateCreditUsageAlways(total, creditsUsed) == total + creditsUsed

\* faulty variant: the total is assigned, not added to
updateCreditUsageOverwrite(total, creditsUsed) ==
  IF isSelfHosted THEN total ELSE creditsUsed

\* utils.ts:90-99 (the total after the call)
updateCreditUsage(total, creditsUsed) ==
  IF isSelfHosted THEN total ELSE total + creditsUsed

\* faulty variant: the warning threshold is tested first
creditNoticeWarningFirst(total) ==
  IF total >= cfg.credit.warningThreshold THEN "warning"
  ELSE IF total >= cfg.credit.criticalThreshold THEN "critical"
  ELSE "none"

\* utils.ts:101-111: the threshold notification logged for the new total
creditNotice(total) ==
  IF total >= cfg.credit.criticalThreshold THEN "critical"
  ELSE IF total >= cfg.credit.warningThreshold THEN "warning"
  ELSE "none"

\* utils.ts:90-112 (the notifications logged so far, after the call)
noticesAfter(logged, total, creditsUsed) ==
  IF isSelfHosted THEN logged
  ELSE Append(logged, creditNotice(total + creditsUsed))

\* faulty variant: the worker has no catch clause
catchesNothing(error) == FALSE

\* batch.ts:108,146: the try block spans the whole body of the worker, so
\* its catch clause receives whatever the body throws.
catchesError(error) == TRUE

\* faulty variant: the failure message is not stored
markFailedWithoutError(op, error) == [op EXCEPT !.status = "failed"]

\* batch.ts:147-148
markFailed(op, error) ==
  [op EXCEPT !.status = "failed", !.error = {errorText(error)}]

\* faulty variant: the progress assignment written the wrong way round
markCompletedSwapped(op, response) ==
  [op EXCEPT !.status = "completed", !.result = {response},
             !.progress.total = op.progress.completed]

\* batch.ts:134-137
markCompleted(op, response) ==
  [op EXCEPT !.status = "completed", !.result = {response},
             !.progress.completed = op.progress.total]

\* batch.ts:248-249: the handler of the promise batchQueue.add returned
markQueueFailure(op, error) ==
  [op EXCEPT !.status = "failed",
             !.error = {MsgFailedToQueue \o errorText(error)}]

\* ------------------------------------------------------------------ p-queue
\* faulty variant: a queue that runs two tasks at a time
concurrencyOfTwo == 1 + 1

\* batch.ts:100
concurrency == 1

\* faulty variant: the newest waiting task is started first
dequeueNewest(q) == q[Len(q)]

\* the task p-queue starts next: the one that has waited longest
dequeue(q) == Head(q)

\* faulty variant: the started task is left on the queue
withoutNothing(q, j) == q

\* the waiting tasks once task j has been taken off
without(q, j) == SelectSeq(q, LAMBDA x : x # j)

\* faulty variant: a queue created with autoStart off starts nothing
canStartPaused(q, n) == FALSE

\* p-queue #tryToStartAnother: a waiting task and a free slot
canStart(q, n) == q # <<>> /\ n < concurrency

\* ------------------------------------------------------------------- state
\* a CallToolResult: what a tool handler returns to its caller
Reply(kind, id, isError, lines) ==
  [kind |-> kind, id |-> id, isError |-> isError, lines |-> lines]

NewTask == [pc |-> "queued", attempt |-> 0, held |-> {}]
NewTrace == [calls |-> 0, sleeps |-> <<>>, heard |-> <<>>]

\* faulty variant: the attempt counter is module state, which the retries
\* of the direct requests in flight have advanced
startedOnSharedCounter(tk) ==
  LET RECURSIVE Retries(_)
      Retries(n) == IF n = 0 THEN 0
                    ELSE (scrapes[n].attempt - 1) + Retries(n - 1)
  IN [tk EXCEPT !.pc = "calling", !.attempt = 1 + Retries(Len(scrapes))]

\* batch.ts:109-118: the worker runs, without yielding, up to its first
\* backend call; utils.ts:45: withRetry starts at attempt 1
started(tk) == [tk EXCEPT !.pc = "calling", !.attempt = 1]
called(tr) == [tr EXCEPT !.calls = @ + 1]

Jobs == DOMAIN batchOperations

\* the module state of the tools and of the server once the modules are
\* loaded: nothing submitted, nothing registered, nobody connected
Loaded ==
  /\ operationCounter = 0
  /\ batchOperations = <<>>
  /\ queue = <<>>
  /\ pending = 0
  /\ task = <<>>
  /\ trace = <<>>
  /\ creditTotal = 0
  /\ notices = <<>>
  /\ scrapes = <<>>
  /\ requestHandlers = <<>>
  /\ registered = 0
  /\ answered = <<>>
  /\ transports = <<>>
  /\ connections = <<>>

Init == cfg \in Configs /\ Loaded

\* p-queue's tryToStartAnother on the registry ops, the waiting tasks q and
\* n running tasks.  p-queue calls the task function at once, inside add()
\* or inside the settling of the previous task, when fewer than
\* `concurrency` tasks run; the worker then runs without yielding up to its
\* first backend call (batch.ts:109-118).
TryToStartAnother(ops, tks, trs, q, n) ==
  IF canStart(q, n)
  THEN LET j == dequeue(q) IN
       /\ queue' = without(q, j)
       /\ pending' = n + 1
       /\ batchOperations' = [ops EXCEPT ![j].status = "processing"]
       /\ task' = [tks EXCEPT ![j] = started(@)]
       /\ trace' = [trs EXCEPT ![j] = called(@)]
  ELSE /\ queue' = q
       /\ pending' = n
       /\ batchOperations' = ops
       /\ task' = tks
       /\ trace' = trs

\* the lengths of the urls arrays submitted
UrlCounts == {MaxUrls}

\* batch.ts:261-272: the result returned for the submission that got `id`
submitBatch(id) == Reply("queued", id, FALSE, {})

\* Map.set: the entry of key k is created or replaced
SetKey(f, k, v) ==
  [x \in DOMAIN f \cup {k} |-> IF x = k THEN v ELSE f[x]]

\* faulty variant: the counter is read before it is incremented
operationIdBeforeIncrement(counter) == counter

\* batch.ts:225: the number in `batch_${++operationCounter}`
operationId(counter) == counter + 1

\* faulty variant: the incremented value is not stored
preIncrementNotStored(counter) == counter

\* batch.ts:225: operationCounter after ++operationCounter
preIncrement(counter) == counter + 1

\* batch.ts:226-235
newOperation(id, n) ==
  [id |-> id, urls |-> n, status |-> "pending",
   progress |-> [completed |-> 0, total |-> n],
   result |-> {}, error |-> {}]

\* batch.ts:224-272: the firecrawl_batch_scrape handler with valid arguments
SubmitBatch(n) ==
  /\ operationCounter < MaxJobs
  /\ LET id == operationId(operationCounter)
     IN /\ operationCounter' = preIncrement(operationCounter)
        /\ TryToStartAnother(SetKey(batchOperations, id, newOperation(id, n)),
                             SetKey(task, id, NewTask),
                             SetKey(trace, id, NewTrace),
                             Append(queue, id), pending)
  /\ UNCHANGED <<cfg, creditTotal, notices, scrapes, server>>

\* The arguments of a firecrawl_batch_scrape request: an object or not,
\* with a `urls` member or not, which is an array or not, of items that are
\* strings or not.
Args(isObject, urls) == [isObject |-> isObject, urls |-> urls]
Urls(isArray, items) == [isArray |-> isArray, items |-> items]

ValidArgs ==
  {Args(TRUE, {Urls(TRUE, [i \in 1..n |-> "string"])}) : n \in UrlCounts}

InvalidArgs ==
  {Args(FALSE, {}), Args(TRUE, {}), Args(TRUE, {Urls(FALSE, <<>>)})}
  \cup
  {Args(TRUE, {Urls(TRUE, [i \in 1..n |->
                            IF i = n THEN "number" ELSE "string"])}) :
     n \in UrlCounts}

BatchArgs == ValidArgs \cup InvalidArgs

\* faulty variant: the items of the array are not looked at
isBatchScrapeOptionsArrayOnly(args) ==
  /\ args.isObject
  /\ args.urls # {}
  /\ \A u \in args.urls : u.isArray

\* batch.ts:155-163
isBatchScrapeOptions(args) ==
  /\ args.isObject
  /\ args.urls # {}
  /\ \A u \in args.urls :
       u.isArray /\ \A i \in 1..Len(u.items) : u.items[i] = "string"

\* batch.ts:207-272: the result returned for a request with these arguments
batchScrape(args) ==
  IF isBatchScrapeOptions(args)
  THEN submitBatch(operationId(operationCounter))
  ELSE Reply("invalid", 0, TRUE, {})

\* batch.ts:180-272: the firecrawl_batch_scrape handler
BatchScrape(args) ==
  IF isBatchScrapeOptions(args)
  THEN SubmitBatch(Len((CHOOSE u \in args.urls : TRUE).items))
  ELSE UNCHANGED vars

\* batch.ts:146-150 with p-queue's view of the task: the worker's promise
\* resolves when the catch clause took the error and rejects otherwise
raise(op, tk, error) ==
  IF catchesError(error)
  THEN [op |-> markFailed(op, error), task |-> [tk EXCEPT !.pc = "resolved"]]
  ELSE [op |-> op, task |-> [tk EXCEPT !.pc = "rejected", !.held = {error}]]

\* utils.ts:47-86 and batch.ts:116-137: the backend call of job j settles
\* with answer r and the worker runs on to its next suspension
BackendAnswers_(j, r) ==
  LET op == batchOperations[j]
      tk == task[j]
      tr == [trace[j] EXCEPT !.heard = Append(@, r)]
      retry == r.tag = "throw" /\ shouldRetry(r, tk.attempt)
      failure == IF r.tag = "throw" THEN r ELSE unsuccessful(r)
      meter == metered(r)
      out == IF retry
             THEN [op |-> op, task |-> [tk EXCEPT !.pc = "sleeping"]]
             ELSE IF r.tag = "throw" \/ ~r.success
             THEN raise(op, tk, failure)
             ELSE IF meter
             THEN [op |-> op,
                   task |-> [tk EXCEPT !.pc = "metered", !.held = {r}]]
             ELSE [op |-> markCompleted(op, r),
                   task |-> [tk EXCEPT !.pc = "resolved"]]
  IN /\ batchOperations' = [batchOperations EXCEPT ![j] = out.op]
     /\ task' = [task EXCEPT ![j] = out.task]
     /\ trace' = [trace EXCEPT ![j] =
                    IF retry
                    THEN [tr EXCEPT !.sleeps = Append(@, delayMs(tk.attempt))]
                    ELSE tr]
     /\ creditTotal' =
          IF meter
          THEN updateCreditUsage(creditTotal,
                                 CHOOSE c \in r.creditsUsed : TRUE)
          ELSE creditTotal
     /\ notices' =
          IF meter
          THEN noticesAfter(notices, creditTotal,
                            CHOOSE c \in r.creditsUsed : TRUE)
          ELSE notices

BackendAnswer(j) ==
  /\ task[j].pc = "calling"
  /\ \E r \in BackendAnswers : BackendAnswers_(j, r)
  /\ UNCHANGED <<cfg, operationCounter, queue, pending, scrapes, server>>

\* utils.ts:75-76: the retry sleep ends and withRetry calls the backend again
RetryWake(j) ==
  /\ task[j].pc = "sleeping"
  /\ task' = [task EXCEPT ![j].pc = "calling", ![j].attempt = @ + 1]
  /\ trace' = [trace EXCEPT ![j] = called(@)]
  /\ UNCHANGED <<cfg, operationCounter, batchOperations, queue, pending,
                 creditTotal, notices, scrapes, server>>

\* batch.ts:131-145: the worker resumes after `await updateCreditUsage(..)`
FinishMetering(j) ==
  /\ task[j].pc = "metered"
  /\ batchOperations' =
       [batchOperations EXCEPT
          ![j] = markCompleted(@, CHOOSE r \in task[j].held : TRUE)]
  /\ task' = [task EXCEPT ![j].pc = "resolved", ![j].held = {}]
  /\ UNCHANGED <<cfg, operationCounter, queue, pending, trace, creditTotal,
                 notices, scrapes, server>>

\* p-queue after the task of job j settled, and batch.ts:241-250: the
\* promise of add() settles (its rejection handler runs when the worker's
\* promise rejected), the slot is freed and the next waiting task starts
QueueNext(j) ==
  /\ task[j].pc \in {"resolved", "rejected"}
  /\ LET ops == IF task[j].pc = "rejected"
                THEN [batchOperations EXCEPT
                        ![j] = markQueueFailure(
                                 @, CHOOSE e \in task[j].held : TRUE)]
                ELSE batchOperations
         tks == [task EXCEPT ![j] = [NewTask EXCEPT !.pc = "done"]]
         trs == [trace EXCEPT ![j] = NewTrace]
     IN TryToStartAnother(ops, tks, trs, queue, pending - 1)
  /\ UNCHANGED <<cfg, operationCounter, creditTotal, notices, scrapes, server>>

\* faulty variant: the optional result line left out
statusLinesWithoutResult(op) ==
  {<<"Status", op.status>>,
   <<"Progress", op.progress.completed, op.progress.total>>}
  \cup (IF op.status = "failed" /\ op.error # {} /\ op.error # {<<>>}
        THEN {<<"Error">>} ELSE {})

\* faulty variant: the two numbers of the progress line exchanged
statusLinesSwapped(op) ==
  {<<"Status", op.status>>,
   <<"Progress", op.progress.total, op.progress.completed>>}

\* batch.ts:350-390: the firecrawl_check_batch_status handler
statusLines(op) ==
  {<<"Status", op.status>>,
   <<"Progress", op.progress.completed, op.progress.total>>}
  \cup (IF op.status = "failed" /\ op.error # {} /\ op.error # {<<>>}
        THEN {<<"Error">>} ELSE {})
  \cup (IF op.status = "completed" /\ op.result # {}
        THEN {<<"Result">>} ELSE {})

\* the result the handler returns for a query of id in the current state
checkBatchStatus(id) ==
  IF id \in Jobs
  THEN Reply("status", id, FALSE, statusLines(batchOperations[id]))
  ELSE Reply("notfound", id, TRUE, {})

\* faulty variant: a lookup that creates the record it does not find
registryAfterGetOrCreate(ops, id) ==
  IF id \in DOMAIN ops THEN ops ELSE SetKey(ops, id, newOperation(id, 0))

\* batch.ts:351: the registry after batchOperations.get(id)
registryAfterGet(ops, id) == ops

\* the handler looks the id up in the registry and builds its result from
\* the record; it has no other statement that touches program state
CheckBatchStatus(id) ==
  /\ checkBatchStatus(id).id = id
  /\ batchOperations' = registryAfterGet(batchOperations, id)
  /\ UNCHANGED <<cfg, operationCounter, queue, pending, task, trace,
                 creditTotal, notices, scrapes, server>>

Next ==
  \/ \E args \in BatchArgs : BatchScrape(args)
  \/ \E j \in Jobs : BackendAnswer(j)
  \/ \E j \in Jobs : RetryWake(j)
  \/ \E j \in Jobs : FinishMetering(j)
  \/ \E j \in Jobs : QueueNext(j)
  \/ \E id \in 1..(MaxJobs + 1) : CheckBatchStatus(id)

Spec == Init /\ [][Next]_vars

\* Every backend call settles, every timer fires and every continuation of
\* a settled promise runs: the steps of a started worker are not postponed
\* for ever.
WorkerStep(j) ==
  /\ j \in Jobs
  /\ BackendAnswer(j) \/ RetryWake(j) \/ FinishMetering(j) \/ QueueNext(j)

FairSpec == Spec /\ \A j \in 1..MaxJobs : WF_vars(WorkerStep(j))

\* ------------------------------------------- the batch tools of scraping.ts
\* scraping.ts registers the same two tools on an McpServer, with its own
\* queue (concurrency 1), registry and counter (scraping.ts:88-90) and its
\* own worker, which calls the backend without withRetry and meters no
\* credits.
MsgScrapingDefaultFailure == <<"Batch operation failed">>

\* scraping.ts:103-105
scrapingUnsuccessful(response) ==
  Thrown("Error",
         IF response.message # <<>> THEN response.message
         ELSE MsgScrapingDefaultFailure,
         0)

\* scraping.ts:107-108
scrapingMarkCompleted(op, response) ==
  [op EXCEPT !.status = "completed", !.result = {response}]

\* scraping.ts:111-112
scrapingMarkFailed(op, error) ==
  [op EXCEPT !.status = "failed", !.error = {errorText(error)}]

\* scraping.ts:372-399: the firecrawl_batch_scrape tool
ScrapingSubmitBatch(n) ==
  /\ operationCounter < MaxJobs
  /\ LET id == operationId(operationCounter)
     IN /\ operationCounter' = preIncrement(operationCounter)
        /\ TryToStartAnother(SetKey(batchOperations, id, newOperation(id, n)),
                             SetKey(task, id, NewTask),
                             SetKey(trace, id, NewTrace),
                             Append(queue, id), pending)
  /\ UNCHANGED <<cfg, creditTotal, notices, scrapes, server>>

\* scraping.ts:97-113: the backend call of job j settles with answer r
ScrapingBackendAnswer(j) ==
  /\ task[j].pc = "calling"
  /\ \E r \in BackendAnswers :
       LET op == batchOperations[j]
           done == IF r.tag = "throw" THEN scrapingMarkFailed(op, r)
                   ELSE IF ~r.success
                   THEN scrapingMarkFailed(op, scrapingUnsuccessful(r))
                   ELSE scrapingMarkCompleted(op, r)
       IN /\ batchOperations' = [batchOperations EXCEPT ![j] = done]
          /\ trace' = [trace EXCEPT ![j].heard = Append(@, r)]
  /\ task' = [task EXCEPT ![j].pc = "resolved"]
  /\ UNCHANGED <<cfg, operationCounter, queue, pending, creditTotal, notices, scrapes,
                 server>>

\* p-queue after the task of job j settled (scraping.ts:386: the promise of
\* add() has no handlers)
ScrapingQueueNext(j) ==
  /\ task[j].pc = "resolved"
  /\ TryToStartAnother(batchOperations,
                       [task EXCEPT ![j] = [NewTask EXCEPT !.pc = "done"]],
                       [trace EXCEPT ![j] = NewTrace], queue, pending - 1)
  /\ UNCHANGED <<cfg, operationCounter, creditTotal, notices, scrapes, server>>

\* scraping.ts:433-442: the lines of the status text
scrapingStatusLines(op) ==
  {<<"Status", op.status>>,
   <<"Progress", op.progress.completed, op.progress.total>>}
  \cup (IF op.error # {} /\ op.error # {<<>>} THEN {<<"Error">>} ELSE {})
  \cup (IF op.result # {} THEN {<<"Result">>} ELSE {})

\* scraping.ts:416-448: the result of the firecrawl_check_batch_status tool
scrapingCheckBatchStatus(id) ==
  IF id \in Jobs
  THEN Reply("status", id, batchOperations[id].status = "failed",
             scrapingStatusLines(batchOperations[id]))
  ELSE Reply("notfound", id, TRUE, {})

ScrapingCheckBatchStatus(id) ==
  /\ scrapingCheckBatchStatus(id).id = id
  /\ UNCHANGED vars

ScrapingNext ==
  \/ \E n \in UrlCounts : ScrapingSubmitBatch(n)
  \/ \E j \in Jobs : ScrapingBackendAnswer(j)
  \/ \E j \in Jobs : ScrapingQueueNext(j)
  \/ \E id \in 1..(MaxJobs + 1) : ScrapingCheckBatchStatus(id)

ScrapingSpec == Init /\ [][ScrapingNext]_vars

\* ------------------------------------------- direct tool calls (scrape.ts)
\* A firecrawl_scrape request calls the backend through withRetry and not
\* through the queue; its handler meters the credits of a successful
\* response (scrape.ts:242-345).
\* faulty variant: the request is put on a queue and not started
NewScrapeQueued ==
  [tool |-> "firecrawl_scrape", pc |-> "queued", attempt |-> 1, calls |-> 0,
   heard |-> <<>>, sleeps |-> <<>>, isError |-> FALSE]

NewScrape ==
  [tool |-> "firecrawl_scrape", pc |-> "calling", attempt |-> 1, calls |-> 1,
   heard |-> <<>>, sleeps |-> <<>>, isError |-> FALSE]

\* the direct requests made so far for one tool
Calls(tool) == {c \in DOMAIN scrapes : scrapes[c].tool = tool}

\* what the backend answers to the requests explored next to batch jobs
ToolAnswers ==
  {ErrRateLimit, ErrOther, OkWithCredits, FailEmpty, FailWithCredits}

\* scrape.ts:186-260: the handler runs, without yielding, up to its
\* backend call
ScrapeUrl ==
  /\ Cardinality(Calls("firecrawl_scrape")) < MaxCalls
  /\ scrapes' = Append(scrapes, NewScrape)
  /\ UNCHANGED <<cfg, operationCounter, batchOperations, queue, pending,
                 task, trace, creditTotal, notices, server>>

\* utils.ts:47-86 and scrape.ts:257-345: the backend call of request c
\* settles with answer r and the handler runs on to its next suspension or
\* to its result.  The handler of firecrawl_check_crawl_status has the same
\* shape and meters no credits (crawlStatus.ts:89-164).
ScrapeAnswers_(c, r) ==
  LET sc == [scrapes[c] EXCEPT !.heard = Append(@, r)]
      retry == r.tag = "throw" /\ shouldRetry(r, sc.attempt)
      failed == r.tag = "throw" \/ ~r.success
      meter == ~failed /\ hasCredits(r) /\ sc.tool = "firecrawl_scrape"
  IN /\ scrapes' =
          [scrapes EXCEPT ![c] =
             IF retry
             THEN [sc EXCEPT !.pc = "sleeping",
                             !.sleeps = Append(@, delayMs(sc.attempt))]
             ELSE [sc EXCEPT !.pc = "done", !.isError = failed]]
     /\ creditTotal' =
          IF meter
          THEN updateCreditUsage(creditTotal,
                                 CHOOSE u \in r.creditsUsed : TRUE)
          ELSE creditTotal
     /\ notices' =
          IF meter
          THEN noticesAfter(notices, creditTotal,
                            CHOOSE u \in r.creditsUsed : TRUE)
          ELSE notices

ScrapeAnswer(c) ==
  /\ scrapes[c].pc = "calling"
  /\ \E r \in ToolAnswers : ScrapeAnswers_(c, r)
  /\ UNCHANGED <<cfg, operationCounter, batchOperations, queue, pending,
                 task, trace, server>>

\* utils.ts:75-76: the retry sleep of request c ends
ScrapeRetryWake(c) ==
  /\ scrapes[c].pc = "sleeping"
  /\ scrapes' = [scrapes EXCEPT ![c].pc = "calling", ![c].attempt = @ + 1,
                                ![c].calls = @ + 1]
  /\ UNCHANGED <<cfg, operationCounter, batchOperations, queue, pending,
                 task, trace, creditTotal, notices, server>>

\* the backend call of batch job j settles, next to direct requests
ToolsBackendAnswer(j) ==
  /\ task[j].pc = "calling"
  /\ \E r \in ToolAnswers : BackendAnswers_(j, r)
  /\ UNCHANGED <<cfg, operationCounter, queue, pending, scrapes, server>>

Scrapes == DOMAIN scrapes

ToolsNext ==
  \/ operationCounter < MaxToolJobs /\ \E n \in UrlCounts : SubmitBatch(n)
  \/ \E j \in Jobs : ToolsBackendAnswer(j)
  \/ \E j \in Jobs : RetryWake(j)
  \/ \E j \in Jobs : FinishMetering(j)
  \/ \E j \in Jobs : QueueNext(j)
  \/ ScrapeUrl
  \/ \E c \in Scrapes : ScrapeAnswer(c)
  \/ \E c \in Scrapes : ScrapeRetryWake(c)

ToolsSpec == Init /\ [][ToolsNext]_vars

\* ------------------------------- direct calls of two tools and one job
\* crawlStatus.ts:46-97: the handler of firecrawl_check_crawl_status runs,
\* without yielding, up to its backend call
CheckCrawlStatus ==
  /\ Cardinality(Calls("firecrawl_check_crawl_status")) < MaxCalls
  /\ scrapes' =
       Append(scrapes,
              [NewScrape EXCEPT !.tool = "firecrawl_check_crawl_status"])
  /\ UNCHANGED <<cfg, operationCounter, batchOperations, queue, pending,
                 task, trace, creditTotal, notices, server>>

\* what the backend answers where the overlap of the calls is explored: a
\* rate-limit error or a response without credits, under the default
\* configuration
DirectAnswers == {ErrRateLimit, OkNoCredits}

DirectInit == cfg = Config(DefaultRetry, DefaultCredit, FALSE) /\ Loaded

DirectAnswer(c) ==
  /\ scrapes[c].pc = "calling"
  /\ \E r \in DirectAnswers : ScrapeAnswers_(c, r)
  /\ UNCHANGED <<cfg, operationCounter, batchOperations, queue, pending,
                 task, trace, server>>

DirectBackendAnswer(j) ==
  /\ task[j].pc = "calling"
  /\ \E r \in DirectAnswers : BackendAnswers_(j, r)
  /\ UNCHANGED <<cfg, operationCounter, queue, pending, scrapes, server>>

\* the first batch job of the server, and direct requests for two tools
DirectNext ==
  \/ operationCounter = 0 /\ \E n \in UrlCounts : SubmitBatch(n)
  \/ \E j \in Jobs : DirectBackendAnswer(j)
  \/ \E j \in Jobs : RetryWake(j)
  \/ \E j \in Jobs : QueueNext(j)
  \/ ScrapeUrl
  \/ CheckCrawlStatus
  \/ \E c \in Scrapes : DirectAnswer(c)
  \/ \E c \in Scrapes : ScrapeRetryWake(c)

DirectSpec == DirectInit /\ [][DirectNext]_vars

\* ------------------------------------------------ withRetry on its own
\* One caller of withRetry under any setting of FIRECRAWL_RETRY_MAX_ATTEMPTS
\* that Number(..) || 3 lets through (client.ts:28), with an operation that
\* may throw any kind of value.
MsgStatusCode429 == <<"Request failed with status code ", "429">>
MsgCapitalised == <<"Rate Limit", " exceeded">>

Err429Message == Thrown("Error", MsgStatusCode429, 0)
ErrCapitalised == Thrown("Error", MsgCapitalised, 0)
ObjStatus429 == Thrown("object", <<>>, TooManyRequests)
ObjStatus500 == Thrown("object", MsgRateLimit, 500)
StrRateLimit == Thrown("string", MsgRateLimit, 0)
StrStatus429 == Thrown("string", MsgStatusCode429, 0)
NullThrown == Thrown("null", <<>>, 0)

ThrownValues ==
  {ErrRateLimit, Err429Message, ErrStatus429, ErrOther, ErrEmpty,
   ErrCapitalised, ObjStatus429, ObjStatus500, StrRateLimit, StrStatus429,
   StrTimeout, NullThrown}

RetryAnswers == ThrownValues \cup {OkNoCredits, FailEmpty}

\* maxAttempts: the default, a fraction, a negative number, one
RetryConfigs ==
  {Config(DefaultRetry, DefaultCredit, FALSE),
   Config([DefaultRetry EXCEPT !.maxAttempts = Fraction(5, 2)],
          DefaultCredit, FALSE),
   Config([DefaultRetry EXCEPT !.maxAttempts = Whole(-1)],
          DefaultCredit, FALSE),
   Config([DefaultRetry EXCEPT !.maxAttempts = Whole(1), !.maxDelay = 1500],
          DefaultCredit, TRUE)}

RetryInit == cfg \in RetryConfigs /\ Loaded

\* utils.ts:47-86: the operation of caller c settles with answer r
RetryAnswer(c) ==
  /\ scrapes[c].pc = "calling"
  /\ \E r \in RetryAnswers : ScrapeAnswers_(c, r)
  /\ UNCHANGED <<cfg, operationCounter, batchOperations, queue, pending,
                 task, trace, server>>

RetryNext ==
  \/ ScrapeUrl
  \/ \E c \in Scrapes : RetryAnswer(c)
  \/ \E c \in Scrapes : ScrapeRetryWake(c)

RetrySpec == RetryInit /\ [][RetryNext]_vars

\* ------------------------------------- the CallTool handlers of the Server
\* tools/index.ts:28-39
allTools ==
  <<"firecrawl_scrape", "firecrawl_map", "firecrawl_crawl",
    "firecrawl_batch_scrape", "firecrawl_check_batch_status",
    "firecrawl_check_crawl_status", "firecrawl_search", "firecrawl_extract",
    "firecrawl_deep_research", "firecrawl_generate_llmstxt">>

\* tools/index.ts:54-62: the tools in the order in which their handlers
\* are registered (registerBatchHandlers registers two, batch.ts:182,308)
registrations ==
  <<"firecrawl_scrape", "firecrawl_map", "firecrawl_crawl",
    "firecrawl_batch_scrape", "firecrawl_check_batch_status",
    "firecrawl_check_crawl_status", "firecrawl_search", "firecrawl_extract",
    "firecrawl_deep_research", "firecrawl_generate_llmstxt">>

ToolNames == {allTools[i] : i \in 1..Len(allTools)}

\* the method of CallToolRequestSchema and of ListToolsRequestSchema
CallToolMethod == "tools/call"
ListToolsMethod == "tools/list"

\* Server.setRequestHandler of the SDK: the handlers are kept in a Map
\* keyed by the method of the schema, so that a handler set for a method
\* replaces the one set before for it
setRequestHandler(handlers, method, handler) ==
  SetKey(handlers, method, handler)

\* the handlers after the first n registrations of CallTool handlers
RECURSIVE handlersAfter(_, _)
handlersAfter(handlers, n) ==
  IF n = 0 THEN handlers
  ELSE setRequestHandler(handlersAfter(handlers, n - 1), CallToolMethod,
                         registrations[n])

\* tools/index.ts:42-63, called once at start-up (part_005:31)
RegisterAllToolHandlers ==
  /\ registered = 0
  /\ requestHandlers' =
       handlersAfter(setRequestHandler(requestHandlers, ListToolsMethod,
                                       "listTools"),
                     Len(registrations))
  /\ registered' = Len(registrations)
  /\ UNCHANGED <<cfg, operationCounter, batchOperations, queue, pending,
                 task, trace, creditTotal, notices, scrapes, answered,
                 transports, connections>>

\* a CallToolResult, by the handler that made it
Result(kind, by, name, isError) ==
  [kind |-> kind, by |-> by, name |-> name, isError |-> isError]

\* The handler registered for tool `by` is given a request for tool `name`:
\* each handler answers a request for another tool with 'Internal error:
\* ... handler received request for <name>' (batch.ts:190-202, 318-328,
\* scrape.ts:200-217, part_004:101-112, ...) and goes on to its own work
\* otherwise; the handler of firecrawl_generate_llmstxt looks at the
\* arguments first (part_004:86-99).
handle(by, name, hasArgs) ==
  IF by = "firecrawl_generate_llmstxt" /\ ~hasArgs
  THEN Result("no arguments", by, name, TRUE)
  ELSE IF name # by
  THEN Result("internal error", by, name, TRUE)
  ELSE Result("handled", by, name, FALSE)

\* the Server dispatches a tools/call request to the handler kept for the
\* method
callTool(name, hasArgs) ==
  IF CallToolMethod \in DOMAIN requestHandlers
  THEN handle(requestHandlers[CallToolMethod], name, hasArgs)
  ELSE Result("method not found", "", name, TRUE)

CallTool(name, hasArgs) ==
  /\ registered = Len(registrations)
  /\ Len(answered) < MaxRequests
  /\ answered' = Append(answered, callTool(name, hasArgs))
  /\ UNCHANGED <<cfg, operationCounter, batchOperations, queue, pending,
                 task, trace, creditTotal, notices, scrapes,
                 requestHandlers, registered, transports, connections>>

HandlersNext ==
  \/ RegisterAllToolHandlers
  \/ \E name \in ToolNames : \E hasArgs \in BOOLEAN : CallTool(name, hasArgs)

HandlersSpec == Init /\ [][HandlersNext]_vars

\* ------------------------------------------------------ the SSE sessions
\* part_005:38-98 (the Server entry point) and index.ts:28-75 (the McpServer
\* entry point).  A session id is a UUID made by the transport; the n-th
\* transport made has the id Uuid(n).  The sessionId of a POST is any
\* string: a UUID, made here or not, or the name of a property that every
\* plain object inherits.
SessionId(name, n) == [name |-> name, n |-> n]
Uuid(n) == SessionId("uuid", n)
InheritedKeys == {SessionId("constructor", 0), SessionId("toString", 0)}
PostedIds == {Uuid(n) : n \in 1..(MaxSessions + 1)} \cup InheritedKeys

\* `delete obj[k]`
DeleteKey(f, k) == [x \in DOMAIN f \ {k} |-> f[x]]

\* `transports[sessionId]` on the plain object of part_005:39: the value of
\* an own property, or what Object.prototype has under that name, or
\* nothing (undefined)
lookup(ts, id) ==
  IF id.name = "uuid"
  THEN IF id.n \in DOMAIN ts THEN {ts[id.n]} ELSE {}
  ELSE {[isTransport |-> FALSE, sessionId |-> id]}

\* new SSEServerTransport("/messages", res)
Transport(n) == [isTransport |-> TRUE, sessionId |-> Uuid(n)]

\* a connection: "open" while the event stream is established, "ended"
\* once the server has ended the response and its 'close' event is still
\* to come, "closed" once the 'close' listener has run
Connection(state) == [state |-> state, handed |-> 0]

\* faulty variant: a 'close' listener that leaves the session in the map
onCloseKeepsSession(ts, n) == ts

\* part_005:50-55, index.ts:37-39: the 'close' listener
onClose(ts, n) == DeleteKey(ts, n)

\* part_005:61-71: connect failed; the response is ended and the session
\* is taken out of the map
onConnectFailure(ts, n) == DeleteKey(ts, n)

\* index.ts:43-47: connect failed; the response is ended
mcpOnConnectFailure(ts, n) == ts

\* the GET /sse handler of the entry point up to the outcome of
\* server.connect, which has no suspension in between
sseConnect(ok, entry) ==
  LET n == Cardinality(DOMAIN connections) + 1
      added == SetKey(transports, n, Transport(n))
  IN
  /\ n <= MaxSessions
  /\ transports' = IF ok THEN added
                   ELSE IF entry = "part_005" THEN onConnectFailure(added, n)
                   ELSE mcpOnConnectFailure(added, n)
  /\ connections' =
       SetKey(connections, n, Connection(IF ok THEN "open" ELSE "ended"))
  /\ UNCHANGED <<cfg, operationCounter, batchOperations, queue, pending,
                 task, trace, creditTotal, notices, scrapes,
                 requestHandlers, registered, answered>>

\* part_005:42-72
SseConnect(ok) == sseConnect(ok, "part_005")

\* index.ts:32-48
McpSseConnect(ok) == sseConnect(ok, "index.ts")

\* the 'close' event of the response of connection n: the client went
\* away, or the response the server ended is done with
Close(n) ==
  /\ connections[n].state \in {"open", "ended"}
  /\ connections' = [connections EXCEPT ![n].state = "closed"]
  /\ transports' = onClose(transports, n)
  /\ UNCHANGED <<cfg, operationCounter, batchOperations, queue, pending,
                 task, trace, creditTotal, notices, scrapes,
                 requestHandlers, registered, answered>>

\* what the route does with a POST: the status it answers with itself, if
\* it does, and whether a transport was handed the request
Routed(status, handed) == [status |-> status, handed |-> handed]

\* part_005:75-98, index.ts:51-75.  A transport that is handed the request
\* writes the response itself.  Calling handlePostMessage on a value that
\* is no transport throws a TypeError inside the try block, and the catch
\* clause answers 500 as no header has been sent.
postMessage(id) ==
  LET found == lookup(transports, id) IN
  IF found = {} THEN Routed({NotFound}, FALSE)
  ELSE LET transport == CHOOSE t \in found : TRUE IN
       IF transport.isTransport THEN Routed({}, TRUE)
       ELSE Routed({InternalServerError}, FALSE)

PostMessage(id) ==
  /\ postMessage(id).handed => connections[id.n].handed < MaxPosts
  /\ connections' =
       IF postMessage(id).handed
       THEN [connections EXCEPT ![id.n].handed = @ + 1]
       ELSE connections
  /\ UNCHANGED <<cfg, operationCounter, batchOperations, queue, pending,
                 task, trace, creditTotal, notices, scrapes,
                 requestHandlers, registered, answered, transports>>

Sessions == DOMAIN connections

SessionNext ==
  \/ \E ok \in BOOLEAN : SseConnect(ok)
  \/ \E n \in Sessions : Close(n)
  \/ \E id \in PostedIds : PostMessage(id)

SessionSpec == Init /\ [][SessionNext]_vars

McpSessionNext ==
  \/ \E ok \in BOOLEAN : McpSseConnect(ok)
  \/ \E n \in Sessions : Close(n)
  \/ \E id \in PostedIds : PostMessage(id)

McpSessionSpec == Init /\ [][McpSessionNext]_vars

\* ------------------------------------------- updateCreditUsage on its own
\* the creditsUsed numbers of the responses metered
CreditAmounts == {0, 60, 500, 1000}

\* utils.ts:90-112: one call; the function has no suspension
UpdateCreditUsage(creditsUsed) ==
  /\ Len(notices) < MaxUpdates
  /\ creditTotal' = updateCreditUsage(creditTotal, creditsUsed)
  /\ notices' = noticesAfter(notices, creditTotal, creditsUsed)
  /\ UNCHANGED <<cfg, operationCounter, batchOperations, queue, pending,
                 task, trace, scrapes, server>>

CreditNext == \E creditsUsed \in CreditAmounts : UpdateCreditUsage(creditsUsed)

CreditSpec == Init /\ [][CreditNext]_vars

\* ------------------------------------------------------------------ claims
Terminal == {"completed", "failed"}

status(j) == batchOperations[j].status

\* a job whose worker is between its start and the settling of its promise
InFlight(j) == task[j].pc \in {"calling", "sleeping", "metered"}

\* C1: in every reachable state at most one batch job is 'processing', and
\* at most one is inside its backend call or its retry sleep, however many
\* jobs wait.
C1_AtMostOneProcessing ==
  /\ Cardinality({j \in Jobs : status(j) = "processing"}) <= 1
  /\ Cardinality({j \in Jobs : InFlight(j)}) <= 1

C1_Witness ==
  /\ Len(queue) >= 2
  /\ \E j \in Jobs : status(j) = "processing" /\ task[j].pc = "sleeping"

\* C2: jobs start in submission order and one after the other: a job has
\* left 'pending' (and has had a backend call made for it) only when every
\* job submitted before it is in a terminal state.
C2_SubmissionOrder ==
  \A a \in Jobs : \A b \in Jobs :
    (a < b /\ (status(b) # "pending" \/ trace[b].calls > 0))
      => (status(a) \in Terminal /\ ~InFlight(a))

C2_Witness ==
  /\ operationCounter = 3
  /\ status(1) \in Terminal
  /\ status(2) = "processing" /\ trace[2].calls = 1
  /\ queue = <<3>>

\* C3: a job's state only moves pending -> processing -> completed | failed;
\* no step changes the state of a job that is 'completed' or 'failed'.
C3_Step(j) ==
  \/ batchOperations'[j].status = status(j)
  \/ <<status(j), batchOperations'[j].status>> \in
       {<<"pending", "processing">>, <<"processing", "completed">>,
        <<"processing", "failed">>}

C3_MonotonicState == [][\A j \in Jobs : C3_Step(j)]_vars

C3_Witness ==
  /\ operationCounter = 3
  /\ status(1) = "completed" /\ task[1].pc = "done"
  /\ status(2) = "failed" /\ task[2].pc = "done"
  /\ status(3) = "processing"

\* C4: result is set exactly when the job is 'completed' and error exactly
\* when it is 'failed'; a 'pending' or 'processing' job has neither.
C4_ResultErrorMatchState ==
  \A j \in Jobs :
    /\ batchOperations[j].result # {} <=> status(j) = "completed"
    /\ batchOperations[j].error # {} <=> status(j) = "failed"

C4_Witness ==
  \E a \in Jobs : \E b \in Jobs : \E c \in Jobs :
    /\ status(a) = "completed" /\ batchOperations[a].result = {OkWithCredits}
    /\ status(b) = "failed" /\ batchOperations[b].error = {MsgDefaultFailure}
    /\ status(c) = "processing" /\ task[c].pc = "metered"

\* the thrown errors that signal rate limiting, by message marker or by
\* the status of the response
RateLimitErrors == {ErrRateLimit, ErrStatus429}

\* every way the backend can signal rate limiting
RateLimitSignals == RateLimitErrors \cup {FailRateLimit}

\* the attempt ceiling of the configurations of Configs, all whole numbers
maxAttempts == cfg.retry.maxAttempts.num

AllRateLimited(h, n) == \A i \in 1..n : h[i] \in RateLimitErrors

Succeeded(r) == r.tag = "return" /\ r.success

\* C5: when the backend throws a rate-limit error on the first k calls of a
\* job (k < maxAttempts) the job goes on to call k+1, and when that call
\* succeeds the backend has been called exactly k+1 times and the job ends
\* 'completed'.
C5_RetryThenSuccess ==
  \A j \in Jobs :
    LET h == trace[j].heard
        n == Len(h)
    IN /\ (n >= 1 /\ n < maxAttempts /\ AllRateLimited(h, n))
            => /\ status(j) = "processing"
               /\ \/ task[j].pc = "sleeping" /\ trace[j].calls = n
                  \/ task[j].pc = "calling" /\ trace[j].calls = n + 1
       /\ (n >= 1 /\ n - 1 < maxAttempts /\ AllRateLimited(h, n - 1)
             /\ Succeeded(h[n]))
            => /\ trace[j].calls = n
               /\ task[j].pc \in {"metered", "resolved"}
               /\ task[j].pc = "resolved" => status(j) = "completed"

C5_Witness ==
  \E j \in Jobs :
    /\ trace[j].heard = <<ErrRateLimit, ErrStatus429, OkNoCredits>>
    /\ trace[j].calls = 3
    /\ status(j) = "completed"

\* C6: when the backend answers every call of a job with a rate-limit
\* error, the backend is called exactly maxAttempts times, after which the
\* job is 'failed' with the message of the last rate-limit error.
C6_RetryExhaustion ==
  \A j \in Jobs :
    LET h == trace[j].heard
        n == Len(h)
    IN (n >= 1 /\ AllRateLimited(h, n))
         => /\ trace[j].calls <= maxAttempts
            /\ n = maxAttempts <=> task[j].pc = "resolved"
            /\ task[j].pc = "resolved"
                 => /\ trace[j].calls = maxAttempts
                    /\ status(j) = "failed"
                    /\ batchOperations[j].error = {h[n].message}

C6_Witness ==
  \E j \in Jobs :
    /\ maxAttempts = 3
    /\ trace[j].heard = <<ErrRateLimit, ErrRateLimit, ErrStatus429>>
    /\ status(j) = "failed"
    /\ batchOperations[j].error = {MsgTooMany}

\* C7: a job ends 'failed' on a rate-limit signal of the backend (a thrown
\* rate-limit error or a {success: false, error} response carrying the
\* rate-limit marker) only after maxAttempts backend calls.
C7_RateLimitAbsorbed ==
  \A j \in Jobs :
    LET h == trace[j].heard
        n == Len(h)
    IN (n >= 1 /\ task[j].pc = "resolved" /\ status(j) = "failed"
          /\ h[n] \in RateLimitSignals)
         => trace[j].calls = maxAttempts

\* C8: withRetry retries after a failed attempt exactly when the error is a
\* rate-limit error and attempt < maxAttempts; any other error ends the
\* invocation with no further call and reaches the worker unchanged.
C8_Step(j) ==
  LET h == trace[j].heard
      g == trace'[j].heard
      r == g[Len(g)]
      a == task[j].attempt
  IN (Len(g) = Len(h) + 1 /\ r.tag = "throw")
       => /\ a = trace[j].calls
          /\ task'[j].pc = "sleeping"
               <=> (r \in RateLimitErrors /\ a < maxAttempts)
          /\ task'[j].pc # "sleeping"
               => /\ task'[j].pc = "resolved"
                  /\ trace'[j].calls = a
                  /\ batchOperations'[j].status = "failed"
                  /\ batchOperations'[j].error = {r.message}
          /\ (r \notin RateLimitErrors /\ Len(h) = 0) => trace'[j].calls = 1

C8_RetryIffRateLimited == [][\A j \in Jobs : C8_Step(j)]_vars

C8_Witness ==
  \E j \in Jobs :
    /\ maxAttempts > 2
    /\ trace[j].heard = <<ErrStatus429, ErrOther>>
    /\ trace[j].calls = 2
    /\ batchOperations[j].error = {MsgOther}

\* C9: the i-th sleep of a withRetry invocation, taken before call i+1, is
\* min(initialDelay * backoffFactor^(i-1), maxDelay); no sleep exceeds
\* maxDelay and, for backoffFactor >= 1, the sleeps never decrease.
C9_Backoff ==
  \A j \in Jobs :
    LET z == trace[j].sleeps IN
    /\ Len(z) = IF task[j].pc = "sleeping" THEN trace[j].calls
                ELSE IF trace[j].calls = 0 THEN 0 ELSE trace[j].calls - 1
    /\ \A i \in 1..Len(z) :
         LET raw == cfg.retry.initialDelay * Pow(cfg.retry.backoffFactor, i - 1)
         IN /\ z[i] = IF raw <= cfg.retry.maxDelay THEN raw
                      ELSE cfg.retry.maxDelay
            /\ z[i] <= cfg.retry.maxDelay
            /\ (i > 1 /\ cfg.retry.backoffFactor >= 1) => z[i - 1] <= z[i]

C9_Witness ==
  \E j \in Jobs :
    /\ trace[j].sleeps = <<1000, 3000, 5000>>
    /\ task[j].pc = "calling"

\* C10: whatever error a job's processing raises, it becomes that job's
\* 'failed' state and does not reach the queue as a rejected task; the queue
\* goes on, so every job behind a failed job is started and reaches a
\* terminal state.
C10_Captured ==
  /\ \A j \in Jobs : task[j].pc # "rejected"
  /\ \A j \in Jobs :
       LET h == trace[j].heard
           n == Len(h)
       IN (n >= 1 /\ ~Succeeded(h[n]) /\ n = trace[j].calls
             /\ task[j].pc # "sleeping")
            => /\ task[j].pc = "resolved"
               /\ status(j) = "failed"
               /\ batchOperations[j].error # {}
  /\ queue # <<>> => pending > 0
  /\ pending = Cardinality({j \in Jobs : InFlight(j) \/ task[j].pc = "resolved"})

C10_BehindFailed(b) ==
  IF b \in Jobs THEN \E a \in 1..(b - 1) : status(a) = "failed" ELSE FALSE

C10_Ended(b) == IF b \in Jobs THEN status(b) \in Terminal ELSE FALSE

C10_FailureIsolation ==
  /\ []C10_Captured
  /\ \A b \in 1..MaxJobs : C10_BehindFailed(b) ~> C10_Ended(b)

C10_Witness ==
  /\ operationCounter = 3
  /\ status(1) = "failed" /\ task[1].pc = "done"
  /\ status(2) = "completed" /\ task[2].pc = "resolved"
  /\ queue = <<3>>

\* a step of the submission handler, and the job it has created
Submitted == operationCounter' # operationCounter

newJob == operationCounter'

\* C11 as stated: when a submission returns, its job is 'pending' and no
\* backend call has been made for it, whether the queue was idle or busy.
C11_PendingAtReturn ==
  [][Submitted =>
       /\ batchOperations'[newJob].status = "pending"
       /\ trace'[newJob].calls = 0]_vars

\* C11: a submission returns without waiting for any backend answer and
\* never leaves its job in a terminal state.  When the queue is busy the
\* job is 'pending', no backend call has been made for it and it is last in
\* the queue; when the queue is idle the queue starts the worker inside
\* add(), so at return the job is already 'processing' and its first
\* backend call has been invoked, with no answer heard yet.
C11_ReturnsBeforeAnswer ==
  [][Submitted =>
       /\ newJob \in Jobs' \ Jobs
       /\ trace'[newJob].heard = <<>>
       /\ IF pending = 0
          THEN /\ batchOperations'[newJob].status = "processing"
               /\ trace'[newJob].calls = 1
               /\ task'[newJob].pc = "calling"
          ELSE /\ batchOperations'[newJob].status = "pending"
               /\ trace'[newJob].calls = 0
               /\ queue' = Append(queue, newJob)]_vars

C11_Witness ==
  /\ operationCounter = 2
  /\ status(1) = "processing"
  /\ trace[1].calls = 1 /\ trace[1].heard = <<>>
  /\ status(2) = "pending" /\ trace[2].calls = 0
  /\ queue = <<2>>

\* C12: every job in state 'completed' has progress.completed equal to
\* progress.total, and the status query of such a job reports n of n.
C12_CompletedIsFull ==
  \A j \in Jobs :
    status(j) = "completed" =>
      /\ batchOperations[j].progress.completed =
           batchOperations[j].progress.total
      /\ \E n \in UrlCounts :
           <<"Progress", n, n>> \in scrapingCheckBatchStatus(j).lines

progress(j) == batchOperations[j].progress

\* C13: for every job, always 0 <= progress.completed <= progress.total
\* and progress.total is the number of URLs submitted; no step changes a
\* job's progress.total or lowers its progress.completed.
C13_ProgressBounds ==
  /\ [](\A j \in Jobs :
         /\ 0 <= progress(j).completed
         /\ progress(j).completed <= progress(j).total
         /\ progress(j).total = batchOperations[j].urls)
  /\ [][\A j \in Jobs :
          /\ batchOperations'[j].progress.total = progress(j).total
          /\ batchOperations'[j].progress.completed >= progress(j).completed
       ]_vars

C13_Witness ==
  \E a \in Jobs : \E b \in Jobs :
    /\ status(a) = "completed"
    /\ progress(a) = [completed |-> MaxUrls, total |-> MaxUrls]
    /\ status(b) = "pending"
    /\ progress(b) = [completed |-> 0, total |-> MaxUrls]

\* how many of the notifications logged so far are of the given level
Count(level) ==
  Cardinality({i \in 1..Len(notices) : notices[i] = level})

threshold(level) ==
  IF level = "critical" THEN cfg.credit.criticalThreshold
  ELSE cfg.credit.warningThreshold

\* C14: crossing a usage threshold is notified exactly once: a 'warning'
\* (a 'critical') notification has been logged once when the total has
\* reached warningThreshold (criticalThreshold), never before that and
\* never again on later calls that keep the total above it.
C14_NotifiedOnce ==
  \A level \in {"warning", "critical"} :
    Count(level) = IF creditTotal >= threshold(level) THEN 1 ELSE 0

C15_Submitted(b) == b \in Jobs

C15_Terminal(b) ==
  IF b \in Jobs THEN status(b) \in Terminal /\ ~InFlight(b) ELSE FALSE

\* C15: when every backend call settles and every continuation is
\* scheduled, every submitted job eventually is 'completed' or 'failed';
\* a job that has left 'pending' stays in the registry and never returns
\* to 'pending', and no job has more than maxAttempts backend calls made
\* for it.
C15_EveryJobEnds ==
  /\ \A b \in 1..MaxJobs : C15_Submitted(b) ~> C15_Terminal(b)
  /\ [](\A j \in Jobs : trace[j].calls <= maxAttempts)
  /\ [][\A j \in Jobs :
          status(j) # "pending" =>
            j \in Jobs' /\ batchOperations'[j].status # "pending"]_vars

C15_Witness ==
  /\ operationCounter = 3
  /\ queue = <<>> /\ pending = 0
  /\ \A j \in Jobs : status(j) \in Terminal /\ task[j].pc = "done"
  /\ \E j \in Jobs : status(j) = "failed"
  /\ \E j \in Jobs : status(j) = "completed"

\* a job whose worker waits for its backend call or sleeps before a retry
Suspended(j) == task[j].pc \in {"calling", "sleeping"}

\* a step in which job k leaves 'pending'
Starts(k) ==
  /\ Next
  /\ status(k) = "pending"
  /\ batchOperations'[k].status = "processing"

\* the tool handlers can run in the current state
Answers(id) == ENABLED CheckBatchStatus(id)

Accepts == ENABLED (\E n \in UrlCounts : SubmitBatch(n))

\* C16 as stated: while a job is suspended, status queries are answered,
\* submissions are accepted and the jobs waiting in the queue are not
\* blocked: the oldest waiting job can start.
C16_NothingBlocked ==
  \A j \in Jobs :
    Suspended(j) =>
      /\ \A id \in 1..(MaxJobs + 1) : Answers(id)
      /\ operationCounter < MaxJobs => Accepts
      /\ queue # <<>> => ENABLED Starts(Head(queue))

\* C16: while a job is suspended, status queries are answered and
\* submissions are accepted, but every other unfinished job waits: it is
\* 'pending' in the queue with no backend call made for it, and no step
\* can start it until the suspended job's task has settled.
C16_OnlyQueueWaits ==
  \A j \in Jobs :
    Suspended(j) =>
      /\ \A id \in 1..(MaxJobs + 1) : Answers(id)
      /\ operationCounter < MaxJobs => Accepts
      /\ \A k \in Jobs \ {j} :
           status(k) \notin Terminal =>
             /\ status(k) = "pending" /\ trace[k].calls = 0
             /\ \E i \in 1..Len(queue) : queue[i] = k
             /\ ~ENABLED Starts(k)

C16_Witness ==
  /\ operationCounter = 2
  /\ task[1].pc = "sleeping"
  /\ queue = <<2>> /\ status(2) = "pending"
  /\ checkBatchStatus(1).lines =
       {<<"Status", "processing">>, <<"Progress", 0, MaxUrls>>}

HasPrefix(msg, prefix) ==
  /\ Len(msg) >= Len(prefix)
  /\ SubSeq(msg, 1, Len(prefix)) = prefix

\* the rejection handler of add()'s promise has run for job j
QueueFailed(j) ==
  \E e \in batchOperations[j].error : HasPrefix(e, MsgFailedToQueue)

C18_UniqueIds ==
  /\ [](/\ Jobs = 1..operationCounter
        /\ \A j \in Jobs : batchOperations[j].id = j)
  /\ [][/\ operationCounter' >= operationCounter
        /\ Jobs \subseteq Jobs'
        /\ \A j \in Jobs : batchOperations'[j].id = batchOperations[j].id
        /\ Submitted =>
             /\ operationCounter' = operationCounter + 1
             /\ Jobs' \ Jobs = {operationCounter + 1}
             /\ \A j \in Jobs : j < operationCounter + 1]_vars

C18_Witness ==
  /\ operationCounter = 3
  /\ Jobs = {1, 2, 3}
  /\ \A j \in Jobs : batchOperations[j].id = j
  /\ status(1) \in Terminal /\ task[1].pc = "done"
  /\ status(3) = "pending"

\* C19: a submission, with the same inputs as an existing job or not,
\* creates one new record under a key not in the registry and leaves every
\* existing record as it was, whatever state that job is in.
C19_SubmissionFrame ==
  [][(\E n \in UrlCounts : SubmitBatch(n)) =>
       /\ \E id \in Jobs' \ Jobs :
            /\ Jobs' = Jobs \cup {id}
            /\ batchOperations'[id].urls \in UrlCounts
       /\ \A j \in Jobs : batchOperations'[j] = batchOperations[j]]_vars

C19_Witness ==
  /\ operationCounter = 3
  /\ \A j \in Jobs : batchOperations[j].urls = MaxUrls
  /\ status(1) = "completed" /\ task[1].pc = "done"
  /\ status(2) = "failed"
  /\ status(3) = "pending"

\* C20: a status query, for a known or an unknown id, changes nothing: the
\* registry's keys and records, the id counter, the queue and the usage
\* counter are the same after it as before.
C20_StatusFrame ==
  [][(\E id \in 1..(MaxJobs + 1) : CheckBatchStatus(id)) =>
       /\ Jobs' = Jobs
       /\ \A j \in Jobs : batchOperations'[j] = batchOperations[j]
       /\ UNCHANGED <<operationCounter, queue, pending, creditTotal,
                      notices, server>>]_vars

C20_Witness ==
  /\ operationCounter = 2
  /\ creditTotal > 0
  /\ queue = <<2>>
  /\ checkBatchStatus(1).kind = "status"
  /\ <<"Status", "processing">> \in checkBatchStatus(1).lines
  /\ checkBatchStatus(3) = Reply("notfound", 3, TRUE, {})

\* C21: a status query for an id no submission has returned is answered
\* 'No batch operation found' and creates no record; a status query for a
\* 'pending' job reports progress 0 of the number of URLs submitted.
C21_UnknownAndPending ==
  /\ [](/\ \A id \in 1..(MaxJobs + 1) :
             id > operationCounter =>
               checkBatchStatus(id) = Reply("notfound", id, TRUE, {})
        /\ \A j \in Jobs :
             status(j) = "pending" =>
               /\ checkBatchStatus(j).kind = "status"
               /\ <<"Progress", 0, batchOperations[j].urls>>
                    \in checkBatchStatus(j).lines)
  /\ [][(\E id \in 1..(MaxJobs + 1) : CheckBatchStatus(id)) =>
          Jobs' = Jobs]_vars

C21_Witness ==
  /\ operationCounter = 2
  /\ status(1) = "failed"
  /\ status(2) = "pending"
  /\ checkBatchStatus(2).lines =
       {<<"Status", "pending">>, <<"Progress", 0, MaxUrls>>}
  /\ checkBatchStatus(3).kind = "notfound"

\* the lines of the status payload of job j
payload(j) == checkBatchStatus(j).lines

\* C22 as stated: the status payload of a job has the error line exactly
\* when the job is 'failed' and the result line exactly when it is
\* 'completed'.
C22_PayloadByState ==
  \A j \in Jobs :
    /\ <<"Error">> \in payload(j) <=> status(j) = "failed"
    /\ <<"Result">> \in payload(j) <=> status(j) = "completed"

\* C22: the status payload of a job has the error line exactly when the
\* job is 'failed' and the error text stored for it is not empty, and the
\* result line exactly when the job is 'completed'; the payload of a
\* 'pending' or 'processing' job has neither.
C22_PayloadByStateAndText ==
  \A j \in Jobs :
    /\ <<"Error">> \in payload(j) <=>
         status(j) = "failed" /\ batchOperations[j].error # {<<>>}
    /\ <<"Result">> \in payload(j) <=> status(j) = "completed"
    /\ status(j) \in {"pending", "processing"} =>
         payload(j) \cap {<<"Error">>, <<"Result">>} = {}

C22_Witness ==
  \E a \in Jobs : \E b \in Jobs : \E c \in Jobs :
    /\ status(a) = "failed" /\ batchOperations[a].error = {<<>>}
    /\ <<"Error">> \notin payload(a)
    /\ status(b) = "failed" /\ <<"Error">> \in payload(b)
    /\ status(c) = "completed" /\ <<"Result">> \in payload(c)

\* C23: with a self-hosted backend (an API URL is set) no batch job and no
\* direct tool call changes creditUsage.total, and no threshold
\* notification is logged.
C23_SelfHostedUnmetered ==
  /\ [](isSelfHosted => creditTotal = 0 /\ notices = <<>>)
  /\ [][isSelfHosted =>
          creditTotal' = creditTotal /\ notices' = notices]_vars

C23_Witness ==
  /\ isSelfHosted
  /\ creditTotal = 0
  /\ \E j \in Jobs :
       status(j) = "completed" /\ batchOperations[j].result = {OkWithCredits}
  /\ \E c \in Scrapes :
       /\ scrapes[c].pc = "done" /\ ~scrapes[c].isError
       /\ scrapes[c].heard[Len(scrapes[c].heard)] = OkWithCredits

\* a successful response that carries a number of credits
Billable(r) == Succeeded(r) /\ hasCredits(r)

\* in this step the backend call of a batch job or of a direct request
\* settles with a billable response
HearsBillable ==
  \/ \E j \in Jobs : \E r \in BackendAnswers :
       Billable(r) /\ trace'[j].heard = Append(trace[j].heard, r)
  \/ \E c \in Scrapes : \E r \in ToolAnswers :
       Billable(r) /\ scrapes'[c].heard = Append(scrapes[c].heard, r)

\* C24: creditUsage.total never decreases, and it changes only in the step
\* in which a backend call settles with a successful response that carries
\* a number of credits.
C24_TotalGrowsOnBillable ==
  [][/\ creditTotal' >= creditTotal
     /\ creditTotal' # creditTotal => HearsBillable]_vars

C24_Witness ==
  /\ creditTotal = 120
  /\ \E j \in Jobs : batchOperations[j].result = {OkWithCredits}
  /\ \E j \in Jobs :
       status(j) = "failed" /\ task[j].pc = "resolved"
       /\ trace[j].heard = <<FailWithCredits>>
  /\ \E c \in Scrapes :
       scrapes[c].pc = "done" /\ scrapes[c].heard = <<OkWithCredits>>

\* C25: job records are never removed: a job in the registry is still
\* there after every step and a status query still finds it; a 'failed' job
\* keeps its record, state and error message as they are, and no backend
\* call is made for it again.
C25_RecordsKept ==
  [][\A j \in Jobs :
       /\ j \in Jobs'
       /\ checkBatchStatus(j)'.kind = "status"
       /\ status(j) = "failed" =>
            /\ batchOperations'[j] = batchOperations[j]
            /\ checkBatchStatus(j)' = checkBatchStatus(j)
            /\ task'[j].pc \in {"resolved", "done"}
            /\ trace'[j].calls <= trace[j].calls]_vars

C25_Witness ==
  /\ operationCounter = 3
  /\ status(1) = "failed" /\ task[1].pc = "done"
  /\ batchOperations[1].error = {MsgOther}
  /\ <<"Error">> \in checkBatchStatus(1).lines
  /\ status(2) = "completed" /\ task[2].pc = "done"
  /\ status(3) = "processing" /\ task[3].pc = "sleeping"

\* the state of a withRetry invocation: where it is, its attempt counter,
\* the backend calls it has made and the answers it has heard
Invocation(pc, attempt, calls, heard) ==
  [pc |-> pc, attempt |-> attempt, calls |-> calls, heard |-> heard]

\* the withRetry invocations that have started: those of the batch jobs in
\* the queue's hands and those of the direct requests
Invocations ==
  {Invocation(task[j].pc, task[j].attempt, trace[j].calls, trace[j].heard) :
     j \in {k \in Jobs : task[k].pc \notin {"queued", "done"}}}
  \cup
  {Invocation(scrapes[c].pc, scrapes[c].attempt, scrapes[c].calls,
              scrapes[c].heard) : c \in Scrapes}

\* answer i of the invocation was a thrown error that withRetry retried
Retried(v, i) ==
  v.heard[i].tag = "throw" /\ shouldRetry(v.heard[i], i)

\* C26: the attempt counter of a withRetry invocation counts that
\* invocation's own backend calls and nothing else: it is 1 at the first
\* call, and the number of calls made is fixed by the answers to the
\* invocation's own calls - every answer but the last was a retried
\* rate-limit error, the invocation sleeps exactly when its last answer is
\* one, and it has ended exactly when its last answer is not - whatever
\* earlier jobs and concurrent requests have met.
C26_PrivateAttempts ==
  \A v \in Invocations :
    LET n == Len(v.heard) IN
    /\ v.attempt = v.calls
    /\ v.calls = IF v.pc = "calling" THEN n + 1 ELSE n
    /\ v.calls >= 1
    /\ \A i \in 1..(n - 1) : Retried(v, i)
    /\ v.pc = "sleeping" => Retried(v, n)
    /\ v.pc \in {"metered", "resolved", "rejected", "done"} =>
         ~Retried(v, n)

C26_Witness ==
  /\ maxAttempts = DefaultMaxAttempts
  /\ operationCounter = 2
  /\ status(1) = "failed" /\ batchOperations[1].error = {MsgRateLimit}
  /\ task[1].pc = "done"
  /\ task[2].pc = "resolved" /\ trace[2].heard = <<OkWithCredits>>
  /\ trace[2].calls = 1
  /\ \E c \in Scrapes :
       scrapes[c].pc = "sleeping" /\ scrapes[c].attempt = 2

\* the record of job j changes in this step
Written(j) == batchOperations'[j] # batchOperations[j]

\* this step is one of the worker of job j: it starts, or it resumes from
\* its backend call or from its metering and ends
OwnWorkerStep(j) ==
  \/ task[j].pc = "queued" /\ task'[j].pc = "calling"
  \/ task[j].pc \in {"calling", "metered"} /\ task'[j].pc = "resolved"

\* C27: once created, a job's record is written only by the steps of that
\* job's own worker; a submission or a status query, in whatever state the
\* job is, writes no existing record, and no step writes two records.
C27_SingleWriter ==
  [][\A j \in Jobs :
       Written(j) =>
         /\ OwnWorkerStep(j)
         /\ ~(\E id \in 1..(MaxJobs + 1) : CheckBatchStatus(id))
         /\ ~(\E n \in UrlCounts : SubmitBatch(n))
         /\ \A k \in Jobs \ {j} : ~Written(k)]_vars

C27_Witness ==
  /\ operationCounter = 3
  /\ task[1].pc = "sleeping"
  /\ batchOperations[1] =
       [newOperation(1, MaxUrls) EXCEPT !.status = "processing"]
  /\ queue = <<2, 3>>

\* a response returned with success = false
Unsuccessful(r) == r.tag = "return" /\ ~r.success

\* the error text a job must carry after the unsuccessful response r
FailureText(r) == IF r.message # <<>> THEN r.message ELSE MsgDefaultFailure

\* job j hears the answer r in this step
Hears(j, r) == trace'[j].heard = Append(trace[j].heard, r)

\* C28: when the backend returns a response with success = false, the job
\* ends 'failed' with the response's error text as its error, or with
\* 'Batch operation failed in Firecrawl API' when that text is empty; the
\* response is not retried (no backend call follows it) and the step adds
\* nothing to the usage counter.
C28_UnsuccessfulResponse ==
  /\ [](\A j \in Jobs :
         LET h == trace[j].heard IN
         (h # <<>> /\ Unsuccessful(h[Len(h)])) =>
           /\ status(j) = "failed"
           /\ batchOperations[j].error = {FailureText(h[Len(h)])}
           /\ task[j].pc = "resolved"
           /\ trace[j].calls = Len(h))
  /\ [][\A j \in Jobs : \A r \in BackendAnswers :
          (Unsuccessful(r) /\ Hears(j, r)) =>
            /\ trace'[j].calls = trace[j].calls
            /\ creditTotal' = creditTotal
            /\ notices' = notices]_vars

C28_Witness ==
  \E j \in Jobs :
    /\ trace[j].heard = <<ErrRateLimit, FailEmpty>>
    /\ trace[j].calls = 2
    /\ status(j) = "failed"
    /\ batchOperations[j].error = {MsgDefaultFailure}
    /\ \E k \in Jobs :
         status(k) = "failed" /\ batchOperations[k].error = {MsgRateLimit}

\* the credits a response carries (0 when it carries none)
CreditsOf(r) ==
  IF r.creditsUsed = {} THEN 0 ELSE CHOOSE u \in r.creditsUsed : TRUE

\* the successful response job j has got, if any: the one its worker holds
\* while the metering is awaited, then the one stored as its result
Successes(j) ==
  IF task[j].pc = "metered" THEN task[j].held
  ELSE IF status(j) = "completed" THEN batchOperations[j].result
  ELSE {}

RECURSIVE SumCredits(_)
SumCredits(n) ==
  IF n = 0 THEN 0
  ELSE (IF Successes(n) = {} THEN 0
        ELSE CreditsOf(CHOOSE r \in Successes(n) : TRUE))
       + SumCredits(n - 1)

\* C29: a batch job adds credits to the usage counter at most once, in a
\* step in which it is and stays 'processing', and from there it can only
\* become 'completed'; a 'failed' job has added nothing, and with a cloud
\* configuration the total is the sum of the credits of the successful
\* responses the jobs have got.
C29_CreditsOncePerSuccess ==
  /\ [](~isSelfHosted => creditTotal = SumCredits(operationCounter))
  /\ [][/\ creditTotal' # creditTotal =>
             \E j \in Jobs :
               /\ status(j) = "processing"
               /\ batchOperations'[j].status = "processing"
               /\ task[j].pc = "calling" /\ task'[j].pc = "metered"
               /\ creditTotal' = creditTotal + CreditsOf(
                                    CHOOSE r \in task'[j].held : TRUE)
        /\ \A j \in Jobs :
             (task[j].pc = "metered" /\ task'[j].pc # "metered") =>
               batchOperations'[j].status = "completed"]_vars

C29_Witness ==
  /\ ~isSelfHosted
  /\ operationCounter = 3
  /\ creditTotal = 120
  /\ status(1) = "completed" /\ batchOperations[1].result = {OkWithCredits}
  /\ status(2) = "failed" /\ batchOperations[2].error = {MsgOther}
  /\ status(3) = "processing" /\ task[3].pc = "metered"

\* arguments with a `urls` array of strings
WellFormed(args) ==
  /\ args.isObject
  /\ \E u \in args.urls :
       u.isArray /\ \A i \in 1..Len(u.items) : u.items[i] = "string"

\* C30: a batch submission whose arguments have no `urls` array, or one
\* with an item that is not a string, is answered with an error result and
\* changes nothing: no record, no counter increment, nothing queued; so
\* the next valid submission gets the next consecutive id.
C30_InvalidSubmission ==
  /\ [](\A args \in BatchArgs :
         ~WellFormed(args) =>
           batchScrape(args) = Reply("invalid", 0, TRUE, {}))
  /\ [][\A args \in BatchArgs :
          BatchScrape(args) =>
            IF WellFormed(args)
            THEN /\ operationCounter' = operationCounter + 1
                 /\ Jobs' \ Jobs = {operationCounter + 1}
            ELSE UNCHANGED <<operationCounter, batchOperations, queue,
                             pending, task, trace, creditTotal, server>>]_vars

C30_Witness ==
  /\ operationCounter = 2
  /\ Jobs = {1, 2}
  /\ queue = <<2>>
  /\ \A args \in InvalidArgs : batchScrape(args).isError
  /\ \A args \in ValidArgs : batchScrape(args) = submitBatch(3)

\* what the claim calls rate-limited: an Error whose message contains
\* 'rate limit' or '429', or an object whose response.status is 429
Marked(e) ==
  \/ /\ e.kind = "Error"
     /\ Includes(e.message, "rate limit") \/ Includes(e.message, "429")
  \/ /\ e.kind \in {"Error", "object"}
     /\ e.status = 429

\* the i-th invocation of caller c was followed by a retry sleep
RetriedAfter(c, i) == Len(scrapes[c].sleeps) >= i

\* C31: a thrown value is treated as rate-limited (retried while attempts
\* are left) exactly when it is an Error whose message contains 'rate limit'
\* or '429', or an object whose response.status is 429; any other thrown
\* value (a string, null, an Error with another message, an object with
\* another status) ends the call at once.
C31_RateLimitClassification ==
  \A c \in Scrapes :
    \A i \in 1..Len(scrapes[c].heard) :
      LET e == scrapes[c].heard[i] IN
      (e.tag = "throw"
         /\ (i < Len(scrapes[c].heard) \/ scrapes[c].pc # "calling"))
        => /\ RetriedAfter(c, i)
                <=> (Marked(e) /\ lessThan(i, cfg.retry.maxAttempts))
           /\ (~Marked(e) /\ i = Len(scrapes[c].heard))
                => scrapes[c].pc = "done" /\ scrapes[c].isError

C31_Witness ==
  /\ cfg.retry.maxAttempts = Whole(DefaultMaxAttempts)
  /\ \E c \in Scrapes :
       /\ scrapes[c].heard = <<ObjStatus429, Err429Message, StrRateLimit>>
       /\ Len(scrapes[c].sleeps) = 2
       /\ scrapes[c].pc = "done"

\* C32: once all handlers are registered, a CallTool request that names a
\* tool of allTools and carries arguments is processed by the handler of
\* that tool, and no request is answered with another handler's 'Internal
\* error: ... handler received request for <name>'.
C32_EveryToolReachable ==
  /\ registered = Len(registrations)
       => \A name \in ToolNames :
            /\ callTool(name, TRUE).kind = "handled"
            /\ callTool(name, TRUE).by = name
  /\ \A i \in 1..Len(answered) : answered[i].kind # "internal error"

Handed(id) ==
  /\ id.name = "uuid" /\ id.n \in Sessions
  /\ connections'[id.n].handed > connections[id.n].handed

\* C34: a POST to /messages is handed to a transport only if its sessionId
\* is that of an open SSE session, and a POST whose sessionId is unknown,
\* or is that of a closed connection, is answered with 404.
C34_Step ==
  \A id \in PostedIds :
    /\ Handed(id) => connections[id.n].state = "open"
    /\ (id.name # "uuid" \/ id.n \notin Sessions
          \/ connections[id.n].state = "closed")
         => postMessage(id) = Routed({NotFound}, FALSE)

C34_OnlyOpenSessions == [][C34_Step]_vars

\* the ids a status query may carry: those of the jobs and one more
QueriedIds == 1..(MaxJobs + 1)

\* C35: the answer to a status query has isError = false for every
\* existing job, whatever its state ('failed' included), and isError =
\* true only for an id that no job has (here for the tool of scraping.ts).
C35_ExistingJobQuerySucceeds ==
  \A id \in QueriedIds :
    scrapingCheckBatchStatus(id).isError <=> id \notin Jobs

\* an updateCreditUsage call that got past the self-hosted check
Notified == Len(notices') = Len(notices) + 1

C36_Step ==
  Notified =>
    LET total == creditTotal'
        logged == notices'[Len(notices')]
    IN /\ SubSeq(notices', 1, Len(notices)) = notices
       /\ logged \in {"critical", "warning", "none"}
       /\ logged = "critical" <=> total >= cfg.credit.criticalThreshold
       /\ logged = "warning"
            => /\ cfg.credit.warningThreshold <= total
               /\ total < cfg.credit.criticalThreshold

NoWarningByDefault ==
  cfg.credit = DefaultCredit
    => \A i \in 1..Len(notices) : notices[i] # "warning"

\* C36: each updateCreditUsage call in cloud mode logs at most one
\* threshold notification: 'critical' exactly when the new total has
\* reached criticalThreshold, 'warning' only when the new total has
\* reached warningThreshold and not criticalThreshold; with the default
\* thresholds (warning 1000, critical 100) no 'warning' is ever logged.
C36_OneNoticePerUpdate == []NoWarningByDefault /\ [][C36_Step]_vars

C36_Witness ==
  /\ cfg.credit = DefaultCredit /\ ~isSelfHosted
  /\ creditTotal >= DefaultWarningThreshold
  /\ notices = <<"none", "critical", "critical">>

\* the credits the handler of direct request c has recorded: those of the
\* successful response it ended on
Recorded(c) ==
  LET h == scrapes[c].heard IN
  IF scrapes[c].pc = "done" /\ ~scrapes[c].isError
  THEN CreditsOf(h[Len(h)]) ELSE 0

RECURSIVE SumRecorded(_)
SumRecorded(n) == IF n = 0 THEN 0 ELSE Recorded(n) + SumRecorded(n - 1)

\* C37: with a cloud configuration, in every interleaving of direct tool
\* calls and batch jobs the usage total is its initial value (0) plus the
\* sum of the credits each of them has recorded: no update is lost.
C37_NoLostUpdate ==
  ~isSelfHosted =>
    creditTotal = SumCredits(operationCounter) + SumRecorded(Len(scrapes))

C37_Witness ==
  /\ ~isSelfHosted
  /\ operationCounter = 2
  /\ status(1) = "completed" /\ batchOperations[1].result = {OkWithCredits}
  /\ status(2) = "processing" /\ task[2].pc = "metered"
  /\ \E c \in Scrapes : Recorded(c) = 60 /\ Len(scrapes[c].heard) = 2
  /\ creditTotal = 180

\* a direct request whose backend call is in flight
Calling(c) == scrapes[c].pc = "calling"

\* a direct request is made in this step
Requested == Len(scrapes') = Len(scrapes) + 1

C38_Step ==
  Requested =>
    LET c == Len(scrapes') IN
    /\ scrapes'[c].pc = "calling" /\ scrapes'[c].calls = 1
    /\ UNCHANGED <<queue, pending, task, batchOperations>>

\* a request can be made for either tool whatever is in flight
NeverHeldBack ==
  /\ Cardinality(Calls("firecrawl_scrape")) < MaxCalls => ENABLED ScrapeUrl
  /\ Cardinality(Calls("firecrawl_check_crawl_status")) < MaxCalls
       => ENABLED CheckCrawlStatus

\* C38: only batch jobs are serialized.  At most one batch job is inside
\* its backend call or retry sleep, while a direct tool request starts its
\* backend call (under withRetry) in the step in which it is made, without
\* touching the queue and whatever else is in flight; so a direct call
\* overlaps a batch job's call and another direct call (the witness).
C38_OnlyBatchSerialized ==
  /\ [](Cardinality({j \in Jobs : InFlight(j)}) <= 1)
  /\ []NeverHeldBack
  /\ [][C38_Step]_vars

C38_Witness ==
  /\ \E j \in Jobs : task[j].pc = "calling" /\ trace[j].calls = 2
  /\ \E c \in Calls("firecrawl_scrape") :
       Calling(c) /\ scrapes[c].calls = 2
  /\ \E c \in Calls("firecrawl_check_crawl_status") : Calling(c)

\* what holds of one withRetry call c whatever the attempt ceiling: the
\* operation has been invoked at least once, a sleep lies between any two
\* consecutive invocations and none follows the last, and an invocation
\* that returned is the last one
RetryShape(c) ==
  LET sc == scrapes[c] IN
  /\ sc.calls >= 1
  /\ Len(sc.sleeps) = IF sc.pc = "sleeping" THEN sc.calls ELSE sc.calls - 1
  /\ sc.pc = "done" => Len(sc.heard) = sc.calls
  /\ \A i \in 1..Len(sc.heard) :
       sc.heard[i].tag = "return"
         => i = Len(sc.heard) /\ sc.calls = i /\ sc.pc = "done"

\* max(1, maxAttempts) >= n, for the fraction maxAttempts
WithinMaxAttempts(n) ==
  LET m == cfg.retry.maxAttempts IN n <= 1 \/ n * m.den <= m.num

\* C39 as claimed: withRetry invokes the operation at least once and at
\* most max(1, maxAttempts) times for any configuration, sleeps once
\* between two consecutive invocations and never after the last, and
\* returns the first successful result without a further invocation.
C39_AtMostMaxAttempts ==
  \A c \in Scrapes : RetryShape(c) /\ WithinMaxAttempts(scrapes[c].calls)

\* C39, amended: as above, with at most max(1, ceiling(maxAttempts))
\* invocations: every invocation after the first has a number n with
\* n - 1 < maxAttempts.
C39_AtMostCeilingOfMaxAttempts ==
  \A c \in Scrapes :
    /\ RetryShape(c)
    /\ scrapes[c].calls <= 1
         \/ lessThan(scrapes[c].calls - 1, cfg.retry.maxAttempts)

C39_Witness ==
  /\ cfg.retry.maxAttempts = Fraction(5, 2)
  /\ \E c \in Scrapes :
       /\ scrapes[c].calls = 3
       /\ Len(scrapes[c].sleeps) = 2
       /\ scrapes[c].heard = <<ErrRateLimit, ObjStatus429, OkNoCredits>>
       /\ scrapes[c].pc = "done" /\ ~scrapes[c].isError
====
